---- MODULE Spec2Model ----
(***************************************************************************)
(* Model of the iOS BLE transport of the ledger library:                   *)
(*   lib/src/transport/ble_ios.rs  BleTransport (list, connect) and        *)
(*                                 BleDevice (write_command, read_data,    *)
(*                                 exchange)                               *)
(*   lib/src/info.rs               Model::from_pid                         *)
(*                                                                         *)
(* The platform layer (Core Bluetooth) pushes CentralEvent values into a   *)
(* FIFO channel, the variable receiver.  Every recv() of the source is one *)
(* step of the model: it takes the head of the channel, returns Err when   *)
(* the channel is empty and closed, and is not enabled (the thread blocks) *)
(* when the channel is empty and open.                                     *)
(***************************************************************************)
EXTENDS Integers, Sequences, FiniteSets, TLC

\* ------------------------------------------------------------------ bounds

\* Events the platform layer enqueues on its own in one run.
MaxEvents == 5
\* Events buffered in the channel at once by the unscripted platform layer.
ChanCap == 1
\* Clock ticks observed during one exchange() call.
MaxTime == 2
\* Events the platform layer enqueues in one run of the transport.
MaxScanEvents == 5
\* Events buffered in the channel at once in a run of the transport.
ScanCap == 2
\* list() and connect() calls in one run of the transport.
MaxCalls == 3
\* exchange() calls on one session in a run of repeated exchanges.
MaxExchanges == 2
\* Longest payload of the chunking runs.
MaxLen == 4
\* Largest non-default MTU of the chunking runs.
MaxMtu == 6
\* Frames of a long payload that remain to be written where a run on it
\* starts.
LongTail == 1

\* --------------------------------------------------------- program constants

BLE_HEADER_LEN == 3
DefaultMtu == 23
CONTINUATION == 3
RESPONSE_TAG == 5
EXCHANGE_CMD == 5
MIN_FRAME_LEN == 5
LEN_OFFSET == 4
U16 == 65536
\* mtu: u8
U8 == 256

\* ------------------------------------------------------------------ values

NoResult == [kind |-> "None", err |-> "", val |-> <<>>]
Ok(v) == [kind |-> "Ok", err |-> "", val |-> v]
Err(e) == [kind |-> "Err", err |-> e, val |-> <<>>]
\* A Rust panic (slice index out of range) unwinding out of the call.
Panicked == [kind |-> "Panic", err |-> "", val |-> <<>>]

\* Identities of the session's peripheral and characteristics, and of another
\* device / characteristic whose events share the channel.
SelfPer == "p1"
OtherPer == "p2"
WriteChr == "write"
NotifyChr == "notify"

\* A CentralEvent.  Fields a variant does not carry hold "" / TRUE / <<>>.
Ev(type, per, chr, ok, val) ==
  [type |-> type, per |-> per, chr |-> chr, ok |-> ok, val |-> val]
WriteResult(per, chr, ok) == Ev("WriteCharacteristicResult", per, chr, ok, <<>>)
SubResult(per, chr, ok) == Ev("SubscriptionChangeResult", per, chr, ok, <<>>)
Value(per, chr, ok, val) == Ev("CharacteristicValue", per, chr, ok, val)

\* A command handed to the platform layer.
Cmd(op, frame) == [op |-> op, frame |-> frame]

VARIABLES
  call,       \* activation record of exchange / write_command / read_data
  mtu,        \* BleDevice.mtu
  receiver,   \* the FIFO event channel (Receiver<CentralEvent>)
  closed,     \* every sender of the channel has been dropped
  delivered,  \* number of events the unscripted platform layer has enqueued
  pending,    \* responses the scripted peripheral owes and has not enqueued yet
  peer,       \* "scripted": the peripheral of the end-to-end scenario;
              \* "any": the platform layer enqueues any event at any time
  cmds,       \* commands issued to the platform layer, in order
  consumed,   \* values of the notifications read_data accepted, in recv order
  notified,   \* a notification of the session's notify characteristic was enqueued
  now,        \* clock ticks since exchange() was called
  deadline,   \* tick at which the timer of tokio::time::timeout elapses, -1: unarmed
  elapsedAt,  \* where the call stood when the caller's timeout had passed, "" before
  pid,        \* argument of Model::from_pid
  model,      \* what Model::from_pid returned
  peripherals,  \* BleTransport.peripherals: pairs (LedgerInfo, Peripheral)
  conn,       \* activation record of the list() or connect() last called
  listed,     \* what the most recent list() returned
  everListed, \* the conn of every LedgerInfo an earlier list() returned
  calls       \* number of list() and connect() calls made

vars == <<call, mtu, receiver, closed, delivered, pending, peer, cmds, consumed,
          notified, now, deadline, elapsedAt, pid, model, peripherals, conn, listed,
          everListed, calls>>

\* What the session's steps leave alone.
pureVars == <<pid, model, peripherals, conn, listed, everListed, calls>>
\* What the transport's steps leave alone.
sessVars == <<call, mtu, pending, peer, consumed, notified, now, deadline, elapsedAt,
             pid, model>>

\* ---------------------------------------------------------------- models

\* A Model value; pid is the payload of Unknown and 0 otherwise.
NoModel == [tag |-> "", pid |-> 0]
NanoSPlus == [tag |-> "NanoSPlus", pid |-> 0]
NanoX == [tag |-> "NanoX", pid |-> 0]
Stax == [tag |-> "Stax", pid |-> 0]
Unknown(p) == [tag |-> "Unknown", pid |-> p]

\* a & b on unsigned integers.
RECURSIVE BitAnd(_, _)
BitAnd(a, b) ==
  IF a = 0 \/ b = 0 THEN 0
  ELSE (a % 2) * (b % 2) + 2 * BitAnd(a \div 2, b \div 2)

\* Mutant of from_pid: only the top nibble is kept by the mask.
from_pid_top_nibble(p) ==
  LET m == BitAnd(p, 61440)
  IN  IF m = 16384 THEN NanoX
      ELSE IF m = 20480 THEN NanoSPlus
      ELSE Unknown(p)

\* Model::from_pid: pid & 0xFF00 against 0x4000 and 0x5000.
from_pid(p) ==
  LET m == BitAnd(p, 65280)
  IN  IF m = 16384 THEN NanoX
      ELSE IF m = 20480 THEN NanoSPlus
      ELSE Unknown(p)

\* ------------------------------------------------------- outbound framing


\* Mutant of BE16: the number is not reduced to 16 bits.
BE16Unreduced(n) == << n \div 256, n % 256 >>

\* (n as u16).to_be_bytes()
BE16(n) == << (n % U16) \div 256, (n % U16) % 256 >>

\* data of write_command: 2-byte big endian length prefix, then the payload.
Data(payload) == BE16(Len(payload)) \o payload

\* slice::chunks(n): consecutive pieces of n elements, the last one shorter;
\* piece k (from 1) starts after (k - 1) * n elements.
Chunks(s, n) ==
  [k \in 1..((Len(s) + n - 1) \div n) |->
     SubSeq(s, (k - 1) * n + 1, IF k * n < Len(s) THEN k * n ELSE Len(s))]

\* Mutant of Frame: sequence numbers start at 1.
FrameSeqFromOne(cmd, i, c) ==
  <<IF i = 0 THEN cmd ELSE CONTINUATION>> \o BE16(i + 1) \o c

\* buff of iteration i of write_command's loop.
Frame(cmd, i, c) == <<IF i = 0 THEN cmd ELSE CONTINUATION>> \o BE16(i) \o c

\* The frames write_command writes for its outgoing data, in loop order.
FramesOf(cmd, data, m) ==
  LET cs == Chunks(data, m - BLE_HEADER_LEN)
  IN  [k \in DOMAIN cs |-> Frame(cmd, k - 1, cs[k])]

\* The frames write_command writes for payload.
Frames(cmd, payload, m) == FramesOf(cmd, Data(payload), m)

\* ------------------------------------------------------- inbound framing

\* &value[5..]
Tail5(value) == SubSeq(value, MIN_FRAME_LEN + 1, Len(value))

\* Mutant of CheckFirst: the declared length is looked at before the tag.
CheckFirstLenBeforeTag(value) ==
  IF Len(value) < MIN_FRAME_LEN THEN Err("UnexpectedResponse")
  ELSE IF value[LEN_OFFSET + 1] = 0 THEN Err("EmptyResponse")
  ELSE IF value[1] # RESPONSE_TAG THEN Err("UnexpectedResponse")
  ELSE Ok(<<>>)

\* The checks read_data makes on the first notification frame.
CheckFirst(value) ==
  IF Len(value) < MIN_FRAME_LEN THEN Err("UnexpectedResponse")
  ELSE IF value[1] # RESPONSE_TAG THEN Err("UnexpectedResponse")
  ELSE IF value[LEN_OFFSET + 1] = 0 THEN Err("EmptyResponse")
  ELSE Ok(<<>>)

\* One iteration of write_command's wait loop on event ev.
WriteWait(ev) ==
  IF ev.type = "WriteCharacteristicResult" /\ ev.per = SelfPer /\ ev.chr = WriteChr
  THEN (IF ev.ok THEN "break" ELSE "fail")
  ELSE "continue"

\* One iteration of read_data's wait loop for the subscription result.
SubWait(ev) ==
  IF ev.type = "SubscriptionChangeResult" /\ ev.per = SelfPer /\ ev.chr = NotifyChr
  THEN (IF ev.ok THEN "break" ELSE "fail")
  ELSE "continue"

\* Mutant of ValueWait: the peripheral of the event is not compared.
ValueWaitAnyPeripheral(ev) ==
  IF ev.type = "CharacteristicValue" /\ ev.chr = NotifyChr
  THEN (IF ev.ok THEN "value" ELSE "fail")
  ELSE "continue"

\* One iteration of read_data's wait loops for a notification.
ValueWait(ev) ==
  IF ev.type = "CharacteristicValue" /\ ev.per = SelfPer /\ ev.chr = NotifyChr
  THEN (IF ev.ok THEN "value" ELSE "fail")
  ELSE "continue"

\* ------------------------------------------------------------ the channel

\* recv() returns: with the head of the channel, or with Err once the channel
\* is empty and closed.  It blocks while the channel is empty and open.
CanRecv == receiver # <<>> \/ closed
Got == receiver # <<>>
Dequeued == IF Got THEN Tail(receiver) ELSE receiver

\* --------------------------------------------------------------- the timer

\* tokio::time::timeout(timeout, read_data()) polls read_data first and yields
\* Err(Elapsed) only if that poll returned Pending and the deadline has passed.
\* read_data holds no .await: its recv() calls block the thread inside the
\* first poll, which therefore never returns Pending.
ReadDataPending == FALSE
TimerFires == ReadDataPending /\ deadline >= 0 /\ now >= deadline

\* value.ok_or(Error::Closed): a wait for a notification ended by the closed
\* channel.
ClosedAsUnknown == Err("Unknown")
ClosedError == Err("Closed")

\* Mutant of exchange_result: an error of read_data is reported as Unknown.
exchange_result_masked(w, r, fired) ==
  IF w.kind # "Ok" THEN w
  ELSE IF fired THEN Err("Timeout")
  ELSE IF r.kind = "Err" THEN Err("Unknown")
  ELSE r

\* The value exchange() returns from the result w of write_command, the result
\* r of read_data and whether the timer won the race.
exchange_result(w, r, fired) ==
  IF w.kind # "Ok" THEN w
  ELSE IF fired THEN Err("Timeout")
  ELSE r

\* The call record c after the outermost call returned.
Returned(c, w, r, fired) ==
  [c EXCEPT !.pc = "done", !.wres = w, !.rres = r,
            !.result = IF c.entry = "exchange" THEN exchange_result(w, r, fired)
                       ELSE w]

\* ------------------------------------------------- the scripted peripheral

\* The reply of the end-to-end scenario.
Reply == <<5, 0, 0, 0, 2, 204, 221>>

\* What the scripted peripheral owes for command c; last: c is the write of the
\* last frame of the APDU.
Owes(c, last) ==
  IF c.op = "write"
  THEN {WriteResult(SelfPer, WriteChr, TRUE)}
       \cup (IF last THEN {Value(SelfPer, NotifyChr, TRUE, Reply)} ELSE {})
  ELSE {SubResult(SelfPer, NotifyChr, TRUE)}

\* Command c goes to the platform layer.
Issue(c, last) ==
  /\ cmds' = Append(cmds, c)
  /\ pending' = IF peer = "scripted" THEN pending \cup Owes(c, last) ELSE pending

\* ---------------------------------------------------------- the transport

\* Strings the source searches or compares are sequences of characters.
NANO_X == <<"N", "a", "n", "o", " ", "X">>
STAX == <<"S", "t", "a", "x">>
\* peripheral.id().to_string(): hexadecimal digits and dashes.
UuidString(per) == <<per>>

\* str::contains
Contains(str, pat) ==
  \E k \in 0..(Len(str) - Len(pat)) : SubSeq(str, k + 1, k + Len(pat)) = pat

\* Mutant of BLE_SPECS: the entry of the Stax is missing.
BLE_SPECS_NanoXOnly ==
  << [model |-> NanoX, service_uuid |-> "0004-0000", notify_uuid |-> "0004-0001",
      write_uuid |-> "0004-0002"] >>

\* BLE_SPECS (write_cmd_uuid is not used by the transport).
BLE_SPECS ==
  << [model |-> NanoX, service_uuid |-> "0004-0000", notify_uuid |-> "0004-0001",
      write_uuid |-> "0004-0002"],
     [model |-> Stax, service_uuid |-> "6004-0000", notify_uuid |-> "6004-0001",
      write_uuid |-> "6004-0002"] >>

Discovered(per, named, name) == Ev("PeripheralDiscovered", per, "", named, name)
Connected(per) == Ev("PeripheralConnected", per, "", TRUE, <<>>)
ConnectFailed(per) == Ev("PeripheralConnectFailed", per, "", FALSE, <<>>)
ServicesDiscovered(per, ok, services) == Ev("ServicesDiscovered", per, "", ok, services)
CharacteristicsDiscovered(per, ok, chars) ==
  Ev("CharacteristicsDiscovered", per, "", ok, chars)

BleInfo(name, addr) == [name |-> name, addr |-> addr]
LedgerInfo(m, c) == [model |-> m, conn |-> c]

\* Mutant of Classify: "Stax" is looked for first.
ClassifyStaxFirst(name) ==
  IF Contains(name, STAX) THEN Stax
  ELSE IF Contains(name, NANO_X) THEN NanoX
  ELSE NoModel

\* The model scan_internal gives a candidate name; NoModel: the candidate is
\* skipped.
Classify(name) ==
  IF Contains(name, NANO_X) THEN NanoX
  ELSE IF Contains(name, STAX) THEN Stax
  ELSE NoModel

\* matched of scan_internal after its loop over the drained events evs.
RECURSIVE Matched(_)
Matched(evs) ==
  IF evs = <<>> THEN <<>>
  ELSE LET e == Head(evs)
           name == IF e.ok THEN e.val ELSE UuidString(e.per)
           m == Classify(name)
       IN  (IF e.type = "PeripheralDiscovered" /\ m # NoModel
            THEN << [info |-> LedgerInfo(m, BleInfo(name, e.per)), per |-> e.per] >>
            ELSE <<>>)
           \o Matched(Tail(evs))

InfosOf(devices) == [k \in 1..Len(devices) |-> devices[k].info]
ConnsOf(infos) == {infos[k].conn : k \in 1..Len(infos)}

InitConn ==
  [pc |-> "idle", info |-> BleInfo(<<>>, ""), per |-> "", model |-> NoModel,
   service |-> "", notify |-> "", write |-> "", result |-> NoResult]

NoCall == conn.pc \in {"idle", "done"}

\* Mutant of KeptPeripherals: the new result set is merged into the table.
KeptPeripheralsMerged(devices) == peripherals \o devices

\* self.peripherals = devices
KeptPeripherals(devices) == devices

\* list() up to the sleep of scan_internal: the scan is started.
scan_internal ==
  /\ NoCall
  /\ calls < MaxCalls
  /\ cmds' = <<Cmd("scan", <<>>)>>
  /\ conn' = [InitConn EXCEPT !.pc = "Scanning"]
  /\ calls' = calls + 1
  /\ UNCHANGED <<receiver, closed, delivered, peripherals, listed, everListed>>
  /\ UNCHANGED sessVars

\* list() after the sleep: scan_internal drains with try_recv() what the
\* channel holds; the table is replaced and the infos are returned.
list ==
  /\ conn.pc = "Scanning"
  /\ LET devices == Matched(receiver)
     IN  /\ peripherals' = KeptPeripherals(devices)
         /\ listed' = InfosOf(devices)
  /\ everListed' = everListed \cup ConnsOf(listed)
  /\ receiver' = <<>>
  /\ conn' = InitConn
  /\ UNCHANGED <<cmds, closed, delivered, calls>>
  /\ UNCHANGED sessVars

\* The entry of BLE_SPECS for model m, NoSpec when there is none.
NoSpec == [model |-> NoModel, service_uuid |-> "", notify_uuid |-> "", write_uuid |-> ""]
SpecOf(m) ==
  LET hits == {k \in 1..Len(BLE_SPECS) : BLE_SPECS[k].model = m}
  IN  IF hits = {} THEN NoSpec
      ELSE BLE_SPECS[CHOOSE k \in hits : \A j \in hits : k <= j]

\* connect(info) up to its first recv(): the Match and Spec lookup stages and
\* the connect command.
connect(info) ==
  /\ NoCall
  /\ calls < MaxCalls
  /\ calls' = calls + 1
  /\ LET hits == {k \in 1..Len(peripherals) : peripherals[k].info.conn = info}
         first == CHOOSE k \in hits : \A j \in hits : k <= j
         d == peripherals[first].info
         p == peripherals[first].per
     IN  IF hits = {}
         THEN /\ conn' = [InitConn EXCEPT !.pc = "done", !.info = info,
                                          !.result = Err("NoDevices")]
              /\ UNCHANGED cmds
         ELSE IF SpecOf(d.model) = NoSpec
         THEN /\ conn' = [InitConn EXCEPT !.pc = "done", !.info = info, !.per = p,
                                          !.model = d.model,
                                          !.result = Err("Unknown")]
              /\ UNCHANGED cmds
         ELSE /\ conn' = [InitConn EXCEPT !.pc = "WaitConnect", !.info = info,
                                          !.per = p, !.model = d.model]
              /\ cmds' = Append(cmds, Cmd("connect", <<p>>))
  /\ UNCHANGED <<receiver, closed, delivered, peripherals, listed, everListed>>
  /\ UNCHANGED sessVars

\* Mutant of Failed: the failure is passed over and the wait goes on.
FailedPassedOver(c, e) == c

Failed(c, e) == [c EXCEPT !.pc = "done", !.result = Err(e)]

\* One recv() of the wait for the connection.  A closed channel ends the loop
\* and connect() goes on to discover the services.
connect_wait_connected ==
  /\ conn.pc = "WaitConnect"
  /\ CanRecv
  /\ LET e == Head(receiver)
         mine == Got /\ e.per = conn.per
     IN  /\ receiver' = Dequeued
         /\ IF mine /\ e.type = "PeripheralConnectFailed"
            THEN conn' = Failed(conn, "Unknown") /\ UNCHANGED cmds
            ELSE IF ~Got \/ (mine /\ e.type = "PeripheralConnected")
            THEN /\ conn' = [conn EXCEPT !.pc = "WaitServices"]
                 /\ cmds' = Append(cmds, Cmd("discover_services",
                                             <<SpecOf(conn.model).service_uuid>>))
            ELSE UNCHANGED <<conn, cmds>>
  /\ UNCHANGED <<closed, delivered, peripherals, listed, everListed, calls>>
  /\ UNCHANGED sessVars

\* One recv() of the wait for the services.
connect_wait_services ==
  /\ conn.pc = "WaitServices"
  /\ CanRecv
  /\ LET e == Head(receiver)
         mine == Got /\ e.type = "ServicesDiscovered" /\ e.per = conn.per
     IN  /\ receiver' = Dequeued
         /\ IF Got /\ ~mine
            THEN UNCHANGED <<conn, cmds>>
            ELSE IF ~Got \/ ~e.ok \/ e.val = <<>>
            THEN conn' = Failed(conn, "Unknown") /\ UNCHANGED cmds
            ELSE /\ conn' = [conn EXCEPT !.pc = "WaitChars", !.service = e.val[1]]
                 /\ cmds' = Append(cmds, Cmd("discover_characteristics",
                                              <<SpecOf(conn.model).notify_uuid,
                                                SpecOf(conn.model).write_uuid>>))
  /\ UNCHANGED <<closed, delivered, peripherals, listed, everListed, calls>>
  /\ UNCHANGED sessVars

Has(chars, id) == \E k \in 1..Len(chars) : chars[k] = id

\* One recv() of the wait for the characteristics.
connect_wait_characteristics ==
  /\ conn.pc = "WaitChars"
  /\ CanRecv
  /\ LET e == Head(receiver)
         mine == Got /\ e.type = "CharacteristicsDiscovered" /\ e.per = conn.per
         sp == SpecOf(conn.model)
     IN  /\ receiver' = Dequeued
         /\ IF Got /\ ~mine
            THEN UNCHANGED <<conn, cmds>>
            ELSE IF ~Got \/ ~e.ok \/ ~Has(e.val, sp.notify_uuid)
                       \/ ~Has(e.val, sp.write_uuid)
            THEN conn' = Failed(conn, "Unknown") /\ UNCHANGED cmds
            ELSE /\ conn' = [conn EXCEPT !.pc = "WaitSub", !.notify = sp.notify_uuid,
                                         !.write = sp.write_uuid]
                 /\ cmds' = Append(cmds, Cmd("subscribe", <<sp.notify_uuid>>))
  /\ UNCHANGED <<closed, delivered, peripherals, listed, everListed, calls>>
  /\ UNCHANGED sessVars

\* One recv() of the wait for the subscription.  A closed channel ends the
\* loop and connect() returns the device.
connect_wait_subscription ==
  /\ conn.pc = "WaitSub"
  /\ CanRecv
  /\ LET e == Head(receiver)
         mine == Got /\ e.type = "SubscriptionChangeResult" /\ e.per = conn.per
     IN  /\ receiver' = Dequeued
         /\ conn' = IF Got /\ ~mine THEN conn
                    ELSE IF Got /\ ~e.ok THEN Failed(conn, "Unknown")
                    ELSE [conn EXCEPT !.pc = "done",
                                      !.result = Ok(<<conn.per, conn.write, conn.notify,
                                                      DefaultMtu>>)]
  /\ UNCHANGED <<cmds, closed, delivered, peripherals, listed, everListed, calls>>
  /\ UNCHANGED sessVars

NameNanoX == <<"N", "a", "n", "o", " ", "X", " ", "1">>
NameStax == <<"S", "t", "a", "x">>
NameBoth == <<"S", "t", "a", "x", " ", "N", "a", "n", "o", " ", "X">>
NameOther == <<"F", "l", "e", "x">>

\* Events the platform layer may enqueue for the transport.
ScanPool ==
  { Discovered("p1", TRUE, NameNanoX), Discovered("p1", FALSE, <<>>),
    Discovered("p2", TRUE, NameStax), Discovered("p2", TRUE, NameBoth),
    Discovered("p2", TRUE, NameOther),
    Connected("p1"), ConnectFailed("p1"), ConnectFailed("p2"),
    ServicesDiscovered("p1", TRUE, <<"0004-0000">>),
    ServicesDiscovered("p1", TRUE, <<>>), ServicesDiscovered("p1", FALSE, <<>>),
    CharacteristicsDiscovered("p1", TRUE, <<"0004-0001", "0004-0002">>),
    CharacteristicsDiscovered("p1", TRUE, <<"0004-0001">>),
    CharacteristicsDiscovered("p1", FALSE, <<>>),
    SubResult("p1", "0004-0001", TRUE), SubResult("p1", "0004-0001", FALSE),
    SubResult("p2", "6004-0001", FALSE) }

\* The info values a caller may pass to connect().
InfoPool ==
  { BleInfo(NameNanoX, "p1"), BleInfo(NameStax, "p2"), BleInfo(NameBoth, "p2"),
    BleInfo(NameNanoX, "p2"), BleInfo(NameOther, "p2") }

connect_call == \E info \in InfoPool : connect(info)

\* The command of the central or of the peripheral that an event answers.
CauseOf(type) ==
  CASE type = "PeripheralDiscovered" -> "scan"
    [] type \in {"PeripheralConnected", "PeripheralConnectFailed"} -> "connect"
    [] type = "ServicesDiscovered" -> "discover_services"
    [] type = "CharacteristicsDiscovered" -> "discover_characteristics"
    [] OTHER -> "subscribe"

\* The platform layer enqueues an event only after a command of the kind it
\* answers was issued, to whichever peripheral; the scan is never stopped, so
\* discoveries keep coming.
Caused(e) == \E k \in 1..Len(cmds) : cmds[k].op = CauseOf(e.type)

TransportDeliver ==
  /\ ~closed
  /\ delivered < MaxScanEvents
  /\ Len(receiver) < ScanCap
  /\ \E e \in ScanPool : Caused(e) /\ receiver' = Append(receiver, e)
  /\ delivered' = delivered + 1
  /\ UNCHANGED <<closed, cmds, peripherals, conn, listed, everListed, calls>>
  /\ UNCHANGED sessVars

TransportClose ==
  /\ ~closed
  /\ closed' = TRUE
  /\ UNCHANGED <<receiver, delivered, cmds, peripherals, conn, listed, everListed,
                 calls>>
  /\ UNCHANGED sessVars

TransportIdle ==
  /\ peripherals = <<>>
  /\ conn = InitConn
  /\ listed = <<>>
  /\ everListed = {}
  /\ calls = 0

\* ------------------------------------------------------------ the session

Commands == {<<>>, <<170, 187>>, [k \in 1..19 |-> k]}
Timeouts == {1}

\* write_command(cmd, payload) up to its first recv(): the first frame is
\* written.  entry names the outermost call.
write_command(entry, cmd, payload, t) ==
  /\ call.pc = "idle"
  /\ LET fs == Frames(cmd, payload, mtu)
     IN  /\ call' = [call EXCEPT !.pc = "WaitWrite", !.entry = entry, !.cmd = cmd,
                                 !.payload = payload, !.timeout = t, !.i = 0]
         /\ Issue(Cmd("write", fs[1]), Len(fs) = 1)
  /\ UNCHANGED <<mtu, receiver, closed, delivered, peer, consumed, notified, now,
                 deadline, elapsedAt>>
  /\ UNCHANGED pureVars

\* exchange(command, timeout) is called on the session.
exchange ==
  \E c \in Commands, t \in Timeouts : write_command("exchange", EXCHANGE_CMD, c, t)

\* One recv() of write_command's wait for the write completion.  On "break"
\* and on a closed channel the for loop goes on: the next frame is written, or
\* write_command returns Ok and exchange() starts read_data under the timer
\* (read_data subscribes before its first recv()).
write_command_recv ==
  /\ call.pc = "WaitWrite"
  /\ CanRecv
  /\ LET out == IF Got THEN WriteWait(Head(receiver)) ELSE "closed"
         fs == Frames(call.cmd, call.payload, mtu)
     IN  /\ receiver' = Dequeued
         /\ IF out = "continue"
            THEN UNCHANGED <<call, cmds, pending, deadline>>
            ELSE IF out = "fail"
            THEN /\ call' = Returned(call, Err("Unknown"), NoResult, FALSE)
                 /\ UNCHANGED <<cmds, pending, deadline>>
            ELSE IF call.i + 1 < Len(fs)
            THEN /\ call' = [call EXCEPT !.i = call.i + 1]
                 /\ Issue(Cmd("write", fs[call.i + 2]), call.i + 2 = Len(fs))
                 /\ UNCHANGED deadline
            ELSE IF call.entry = "exchange"
            THEN /\ call' = [call EXCEPT !.pc = "WaitSub", !.wres = Ok(<<>>)]
                 /\ Issue(Cmd("subscribe", <<>>), FALSE)
                 /\ deadline' = now + call.timeout
            ELSE /\ call' = Returned(call, Ok(<<>>), NoResult, FALSE)
                 /\ UNCHANGED <<cmds, pending, deadline>>
  /\ UNCHANGED <<mtu, closed, delivered, peer, consumed, notified, now, elapsedAt>>
  /\ UNCHANGED pureVars

\* One recv() of read_data's wait for the subscription result.  A closed
\* channel ends the loop without an error.
read_data_sub_recv ==
  /\ call.pc = "WaitSub"
  /\ IF TimerFires
     THEN /\ call' = Returned(call, call.wres, NoResult, TRUE)
          /\ UNCHANGED receiver
     ELSE /\ CanRecv
          /\ LET out == IF Got THEN SubWait(Head(receiver)) ELSE "closed"
             IN  /\ receiver' = Dequeued
                 /\ call' = IF out = "continue" THEN call
                            ELSE IF out = "fail"
                            THEN Returned(call, call.wres, Err("Unknown"), FALSE)
                            ELSE [call EXCEPT !.pc = "WaitFirst"]
  /\ UNCHANGED <<mtu, closed, delivered, pending, peer, cmds, consumed, notified,
                 now, deadline, elapsedAt>>
  /\ UNCHANGED pureVars

\* One recv() of read_data's wait for the first notification, with the checks
\* on the frame and the start of the response buffer.
read_data_first_recv ==
  /\ call.pc = "WaitFirst"
  /\ IF TimerFires
     THEN /\ call' = Returned(call, call.wres, NoResult, TRUE)
          /\ UNCHANGED <<receiver, cmds, pending, consumed>>
     ELSE /\ CanRecv
          /\ LET out == IF Got THEN ValueWait(Head(receiver)) ELSE "closed"
                 v == Head(receiver).val
                 b == Tail5(v)
             IN  /\ receiver' = Dequeued
                 /\ consumed' = IF out = "value" THEN Append(consumed, v) ELSE consumed
                 /\ IF out = "continue"
                    THEN UNCHANGED <<call, cmds, pending>>
                    ELSE IF out = "closed"
                    THEN /\ call' = Returned(call, call.wres, ClosedError, FALSE)
                         /\ UNCHANGED <<cmds, pending>>
                    ELSE IF out = "fail"
                    THEN /\ call' = Returned(call, call.wres, Err("Unknown"), FALSE)
                         /\ UNCHANGED <<cmds, pending>>
                    ELSE IF CheckFirst(v).kind = "Err"
                    THEN /\ call' = Returned(call, call.wres, CheckFirst(v), FALSE)
                         /\ UNCHANGED <<cmds, pending>>
                    ELSE IF Len(b) < v[LEN_OFFSET + 1]
                    THEN /\ call' = [call EXCEPT !.pc = "WaitMore",
                                                 !.len = v[LEN_OFFSET + 1], !.buff = b]
                         /\ UNCHANGED <<cmds, pending>>
                    ELSE /\ call' = Returned([call EXCEPT !.len = v[LEN_OFFSET + 1],
                                                          !.buff = b],
                                             call.wres, Ok(b), FALSE)
                         /\ Issue(Cmd("unsubscribe", <<>>), FALSE)
  /\ UNCHANGED <<mtu, closed, delivered, peer, notified, now, deadline, elapsedAt>>
  /\ UNCHANGED pureVars

\* One recv() of read_data's wait for a further notification.  &value[5..] of
\* a value shorter than 5 bytes panics.
read_data_more_recv ==
  /\ call.pc = "WaitMore"
  /\ IF TimerFires
     THEN /\ call' = Returned(call, call.wres, NoResult, TRUE)
          /\ UNCHANGED <<receiver, cmds, pending, consumed>>
     ELSE /\ CanRecv
          /\ LET out == IF Got THEN ValueWait(Head(receiver)) ELSE "closed"
                 v == Head(receiver).val
                 b == call.buff \o Tail5(v)
             IN  /\ receiver' = Dequeued
                 /\ consumed' = IF out = "value" THEN Append(consumed, v) ELSE consumed
                 /\ IF out = "continue"
                    THEN UNCHANGED <<call, cmds, pending>>
                    ELSE IF out = "closed"
                    THEN /\ call' = Returned(call, call.wres, ClosedError, FALSE)
                         /\ UNCHANGED <<cmds, pending>>
                    ELSE IF out = "fail"
                    THEN /\ call' = Returned(call, call.wres, Err("Unknown"), FALSE)
                         /\ UNCHANGED <<cmds, pending>>
                    ELSE IF Len(v) < MIN_FRAME_LEN
                    THEN /\ call' = Returned(call, call.wres, Panicked, FALSE)
                         /\ UNCHANGED <<cmds, pending>>
                    ELSE IF Len(b) < call.len
                    THEN /\ call' = [call EXCEPT !.buff = b]
                         /\ UNCHANGED <<cmds, pending>>
                    ELSE /\ call' = Returned([call EXCEPT !.buff = b],
                                             call.wres, Ok(b), FALSE)
                         /\ Issue(Cmd("unsubscribe", <<>>), FALSE)
  /\ UNCHANGED <<mtu, closed, delivered, peer, notified, now, deadline, elapsedAt>>
  /\ UNCHANGED pureVars

\* ------------------------------------------------------- the environment

\* Notification values the unscripted platform layer may deliver.
NotifyFrames ==
  { Reply,                          \* complete response of 2 bytes
    <<5, 0, 0, 0, 2, 204>>,         \* 1 of 2 declared bytes
    <<5, 0, 0, 0, 3, 204>>,         \* 1 of 3 declared bytes
    <<3, 0, 1, 0, 0, 221>>,         \* another tag, 1 byte after offset 5
    <<5, 0, 0, 0>>,                 \* 4 bytes
    <<5, 0, 0, 0, 0>>,              \* declared length 0, nothing after offset 5
    <<5, 0, 0, 0, 2, 204, 221, 238>> }  \* 3 bytes for 2 declared

EventPool ==
  { WriteResult(SelfPer, WriteChr, TRUE), WriteResult(SelfPer, WriteChr, FALSE),
    WriteResult(OtherPer, WriteChr, FALSE),
    SubResult(SelfPer, NotifyChr, TRUE), SubResult(SelfPer, NotifyChr, FALSE),
    SubResult(OtherPer, NotifyChr, FALSE),
    Value(SelfPer, NotifyChr, FALSE, <<>>),
    Value(OtherPer, NotifyChr, TRUE, Reply),
    Value(SelfPer, WriteChr, TRUE, Reply) }
  \cup { Value(SelfPer, NotifyChr, TRUE, f) : f \in NotifyFrames }

IsNotification(e) ==
  e.type = "CharacteristicValue" /\ e.per = SelfPer /\ e.chr = NotifyChr

\* The platform layer enqueues an event.
PlatformDeliver ==
  /\ peer = "any"
  /\ ~closed
  /\ delivered < MaxEvents
  /\ Len(receiver) < ChanCap
  /\ \E e \in EventPool :
       /\ receiver' = Append(receiver, e)
       /\ notified' = (notified \/ IsNotification(e))
  /\ delivered' = delivered + 1
  /\ UNCHANGED <<call, mtu, closed, pending, peer, cmds, consumed, now, deadline,
                 elapsedAt>>
  /\ UNCHANGED pureVars

\* The scripted peripheral's response reaches the channel.
PeripheralRespond ==
  /\ \E e \in pending :
       /\ receiver' = Append(receiver, e)
       /\ pending' = pending \ {e}
       /\ notified' = (notified \/ IsNotification(e))
  /\ UNCHANGED <<call, mtu, closed, delivered, peer, cmds, consumed, now, deadline,
                 elapsedAt>>
  /\ UNCHANGED pureVars

\* The last sender of the channel is dropped.
ChannelClose ==
  /\ peer = "any"
  /\ ~closed
  /\ call.pc # "done"
  /\ closed' = TRUE
  /\ UNCHANGED <<call, mtu, receiver, delivered, pending, peer, cmds, consumed,
                 notified, now, deadline, elapsedAt>>
  /\ UNCHANGED pureVars

\* Time passes during the call.
Tick ==
  /\ call.pc \notin {"idle", "done"}
  /\ now < MaxTime
  /\ now' = now + 1
  /\ elapsedAt' = IF elapsedAt = "" /\ now + 1 >= call.timeout THEN call.pc
                  ELSE elapsedAt
  /\ UNCHANGED <<call, mtu, receiver, closed, delivered, pending, peer, cmds,
                 consumed, notified, deadline>>
  /\ UNCHANGED pureVars

\* ------------------------------------------------------- specifications

InitCall ==
  [pc |-> "idle", entry |-> "", cmd |-> 0, payload |-> <<>>, timeout |-> 0, i |-> 0,
   len |-> 0, buff |-> <<>>, wres |-> NoResult, rres |-> NoResult,
   result |-> NoResult]

\* A session as connect() returns it.
Init ==
  /\ call = InitCall
  /\ mtu = DefaultMtu
  /\ receiver = <<>>
  /\ closed = FALSE
  /\ delivered = 0
  /\ pending = {}
  /\ peer \in {"scripted", "any"}
  /\ cmds = <<>>
  /\ consumed = <<>>
  /\ notified = FALSE
  /\ now = 0
  /\ deadline = -1
  /\ elapsedAt = ""
  /\ pid = 0
  /\ model = NoModel
  /\ TransportIdle

Next ==
  \/ exchange
  \/ write_command_recv
  \/ read_data_sub_recv
  \/ read_data_first_recv
  \/ read_data_more_recv
  \/ PlatformDeliver
  \/ PeripheralRespond
  \/ ChannelClose
  \/ Tick

Spec == Init /\ [][Next]_vars

\* A transport as BleTransport::new() returns it.
InitTransport ==
  /\ TransportIdle
  /\ receiver = <<>>
  /\ closed = FALSE
  /\ delivered = 0
  /\ cmds = <<>>
  /\ call = InitCall
  /\ mtu = DefaultMtu
  /\ pending = {}
  /\ peer = "any"
  /\ consumed = <<>>
  /\ notified = FALSE
  /\ now = 0
  /\ deadline = -1
  /\ elapsedAt = ""
  /\ pid = 0
  /\ model = NoModel

NextTransport ==
  \/ scan_internal
  \/ list
  \/ connect_call
  \/ connect_wait_connected
  \/ connect_wait_services
  \/ connect_wait_characteristics
  \/ connect_wait_subscription
  \/ TransportDeliver
  \/ TransportClose

SpecTransport == InitTransport /\ [][NextTransport]_vars

\* ------------------------------------------------ write_command on its own

\* write_command(cmd, payload) on sessions of any MTU above the header length,
\* against the peripheral that confirms every write.
RECURSIVE SeqsUpTo(_, _)
SeqsUpTo(S, n) ==
  IF n = 0 THEN {<<>>}
  ELSE LET shorter == SeqsUpTo(S, n - 1)
       IN  shorter \cup {Append(q, x) : q \in shorter, x \in S}

Payloads == SeqsUpTo({170, 187}, MaxLen)
CmdBytes == {EXCHANGE_CMD, 8}
Mtus == ((BLE_HEADER_LEN + 1)..MaxMtu) \cup {DefaultMtu}

write_command_call ==
  \E cmd \in CmdBytes, p \in Payloads : write_command("write_command", cmd, p, 0)

InitChunk ==
  /\ call = InitCall
  /\ mtu \in Mtus
  /\ receiver = <<>>
  /\ closed = FALSE
  /\ delivered = 0
  /\ pending = {}
  /\ peer = "scripted"
  /\ cmds = <<>>
  /\ consumed = <<>>
  /\ notified = FALSE
  /\ now = 0
  /\ deadline = -1
  /\ elapsedAt = ""
  /\ pid = 0
  /\ model = NoModel
  /\ TransportIdle

NextChunk ==
  \/ write_command_call
  \/ write_command_recv
  \/ PeripheralRespond

SpecChunk == InitChunk /\ [][NextChunk]_vars

\* -------------------------------------------- write_command on long payloads

\* Payload lengths around the range of the 2-byte length prefix, and the
\* payload of each: byte k is k as u8.
LongLens == {U16 - 1, U16, U16 + 1}
LongPayload(L) == [k \in 1..L |-> k % U8]
LongPayloads == {LongPayload(L) : L \in LongLens}
\* The smallest MTU above the header length and the largest value of the u8
\* field; with them the MTUs of the chunking runs.
MinMtu == BLE_HEADER_LEN + 1
MaxU8Mtu == U8 - 1
LongMtus == Mtus \cup {MinMtu, MaxU8Mtu}

\* write_command(cmd, p) in its for loop, data its outgoing data: all frames
\* but the last LongTail are written, and all of these but the last one are
\* acknowledged and the acknowledgement received.
InLoop(cmd, p, data) ==
  LET fs == FramesOf(cmd, data, mtu)
  IN  \E k \in {Len(fs) - LongTail} :
        /\ call = [InitCall EXCEPT !.pc = "WaitWrite", !.entry = "write_command",
                                   !.cmd = cmd, !.payload = p, !.i = k - 1]
        /\ cmds = SubSeq([j \in DOMAIN fs |-> Cmd("write", fs[j])], 1, k)
        /\ pending = Owes(Cmd("write", fs[k]), k = Len(fs))

\* A session of any MTU before write_command is called, or a session in the
\* loop of a write_command on a long payload with LongTail frames still to
\* write: of the largest MTU for each long payload, and of the smallest MTU,
\* where a chunk is one byte and the sequence numbers pass 2^16, for the
\* payload of 2^16 bytes.
InitLong ==
  /\ \/ mtu \in LongMtus /\ call = InitCall /\ cmds = <<>> /\ pending = {}
     \/ /\ mtu = MaxU8Mtu
        /\ \E p \in LongPayloads :
             \E data \in {Data(p)} : InLoop(EXCHANGE_CMD, p, data)
     \/ /\ mtu = MinMtu
        /\ \E p \in {LongPayload(U16)} :
             \E data \in {Data(p)} : InLoop(EXCHANGE_CMD, p, data)
  /\ receiver = <<>>
  /\ closed = FALSE
  /\ delivered = 0
  /\ peer = "scripted"
  /\ consumed = <<>>
  /\ notified = FALSE
  /\ now = 0
  /\ deadline = -1
  /\ elapsedAt = ""
  /\ pid = 0
  /\ model = NoModel
  /\ TransportIdle

NextLong ==
  \/ write_command_call
  \/ write_command_recv
  \/ PeripheralRespond

SpecLong == InitLong /\ [][NextLong]_vars

\* ------------------------------------------------------- Model::from_pid

from_pid_call ==
  /\ model = NoModel
  /\ model' = from_pid(pid)
  /\ UNCHANGED <<call, mtu, receiver, closed, delivered, pending, peer, cmds,
                 consumed, notified, now, deadline, elapsedAt, pid, peripherals, conn,
                 listed, everListed, calls>>

InitPid ==
  /\ pid \in 0..(U16 - 1)
  /\ model = NoModel
  /\ call = InitCall
  /\ mtu = DefaultMtu
  /\ receiver = <<>>
  /\ closed = FALSE
  /\ delivered = 0
  /\ pending = {}
  /\ peer = "any"
  /\ cmds = <<>>
  /\ consumed = <<>>
  /\ notified = FALSE
  /\ now = 0
  /\ deadline = -1
  /\ elapsedAt = ""
  /\ TransportIdle

NextPid == from_pid_call

SpecPid == InitPid /\ [][NextPid]_vars

\* ------------------------------------------------------------- claims

TimerElapsed == deadline >= 0 /\ now >= deadline
Subscribed == \E k \in 1..Len(cmds) : cmds[k].op = "subscribe"

\* The bytes of frame f from offset 5 onward.
From5(f) == [k \in 1..(Len(f) - 5) |-> f[k + 5]]
RECURSIVE Concat5(_)
Concat5(fs) == IF fs = <<>> THEN <<>> ELSE From5(Head(fs)) \o Concat5(Tail(fs))
Front(q) == SubSeq(q, 1, Len(q) - 1)

\* C1: against the scripted peripheral (every write confirmed, every
\* subscribe/unsubscribe answered with success, the command answered with the
\* frame [0x05,0,0,0,2,0xCC,0xDD]), exchange([0xAA,0xBB], 1s) returns
\* Ok([0xCC,0xDD]) in whatever order the responses reach the channel: once the
\* peripheral owes nothing and the channel is drained the call has returned,
\* and what it returned is Ok([0xCC,0xDD]).
C1_EndToEnd ==
  (peer = "scripted" /\ call.entry = "exchange" /\ call.payload = <<170, 187>>)
    => /\ (call.pc = "done" => call.result = Ok(<<204, 221>>))
       /\ (pending = {} /\ receiver = <<>> => call.pc = "done")

\* C3: when the command has been written, no notification of the notify
\* characteristic has been delivered and the timer of exchange() has elapsed
\* while read_data waits for the first notification, the call goes on to
\* return (Timeout): it is not blocked in that wait.
C3_TimeoutReturned ==
  (call.pc = "WaitFirst" /\ TimerElapsed /\ ~notified /\ receiver = <<>> /\ ~closed)
    => ENABLED read_data_first_recv

\* C4: if the caller's timeout elapsed while exchange() was waiting
\* in write_command for a write confirmation, exchange() returns Timeout.
C4_TimeoutCoversWrite ==
  (call.entry = "exchange" /\ call.pc = "done" /\ elapsedAt = "WaitWrite")
    => call.result = Err("Timeout")

\* C5: the first notification frame alone decides a malformed response: a
\* first frame shorter than 5 bytes gives UnexpectedResponse, one of at least
\* 5 bytes whose byte 0 is not 0x05 gives UnexpectedResponse, one of at least
\* 5 bytes with byte 0 = 0x05 and byte 4 = 0 gives EmptyResponse, and in each
\* case the call has returned with no further frame consumed.
C5_MalformedFirst ==
  consumed # <<>> =>
    LET f == consumed[1]
        short == Len(f) < 5
        tag == Len(f) >= 5 /\ f[1] # 5
        empty == Len(f) >= 5 /\ f[1] = 5 /\ f[5] = 0
    IN  (short \/ tag \/ empty)
          => /\ call.pc = "done"
             /\ Len(consumed) = 1
             /\ call.rres = (IF empty THEN Err("EmptyResponse")
                             ELSE Err("UnexpectedResponse"))
             /\ call.result = call.rres

C5_Witness ==
  /\ call.pc = "done" /\ consumed = << <<3, 0, 1, 0, 0, 221>> >>
  /\ call.result = Err("UnexpectedResponse")

\* C6: after a valid first frame (at least 5 bytes, byte 0 = 0x05, byte 4 =
\* n > 0) read_data takes frames in recv order until the accumulated count
\* first reaches n, whatever the frames are; the buffer is at every moment the
\* concatenation, in that order, of the bytes from offset 5 onward of the
\* frames taken (a frame taken twice counts twice, the tag of a later frame is
\* not looked at), that is what Ok carries, and taking a frame never ends
\* read_data in another way than by that Ok.
C6_Reassembly ==
  /\ call.pc = "WaitMore"
       => /\ CheckFirst(consumed[1]).kind = "Ok"
          /\ call.len = consumed[1][5]
          /\ call.buff = Concat5(consumed)
          /\ Len(call.buff) < call.len
  /\ call.rres.kind = "Ok"
       => /\ Len(consumed[1]) >= 5 /\ consumed[1][1] = 5 /\ consumed[1][5] > 0
          /\ call.rres.val = Concat5(consumed)
          /\ call.result = call.rres
          /\ Len(Concat5(consumed)) >= consumed[1][5]
          /\ Len(Concat5(Front(consumed))) < consumed[1][5]
  /\ (consumed # <<>> /\ CheckFirst(consumed[1]).kind = "Ok")
       => call.rres.kind \in {"None", "Ok", "Err"}

\* C8: exchange() hands on the error of its parts: when write_command failed
\* with E, exchange() returns E, no subscribe was issued and no notification
\* was consumed; when read_data failed with E and the timer had not elapsed,
\* exchange() returns E; exchange() returns Timeout only with the timer
\* elapsed.
C8_ErrorPropagation ==
  (call.entry = "exchange" /\ call.pc = "done")
    => /\ (call.wres.kind = "Err"
             => call.result = call.wres /\ ~Subscribed /\ consumed = <<>>
                  /\ call.rres = NoResult)
       /\ (call.rres.kind = "Err" /\ ~TimerElapsed => call.result = call.rres)
       /\ (call.result = Err("Timeout") => TimerElapsed)

C8_Witness ==
  /\ call.entry = "exchange" /\ call.pc = "done"
  /\ call.rres = Err("EmptyResponse") /\ call.result = Err("EmptyResponse")
  /\ ~TimerElapsed

\* C9: a recv() that finds the channel closed ends read_data with Closed: at
\* the wait for the subscription result the loop ends and the wait for the
\* first notification follows, at the waits for a notification read_data
\* returns Closed; Ok never carries fewer bytes than the first frame declared.
C9_ClosedWhileReading ==
  [][ /\ (call.pc = "WaitSub" /\ receiver = <<>> /\ closed /\ call' # call)
         => call'.pc = "WaitFirst" /\ receiver' = <<>> /\ closed'
      /\ (call.pc \in {"WaitFirst", "WaitMore"} /\ receiver = <<>> /\ closed
            /\ call' # call)
         => call'.pc = "done" /\ call'.rres = Err("Closed")
              /\ call'.result = Err("Closed")
      /\ (call'.rres.kind = "Ok" => Len(call'.rres.val) >= call'.len)
    ]_vars

C9_Witness ==
  /\ call.pc = "done" /\ call.result = Err("Closed") /\ closed
  /\ consumed = << <<5, 0, 0, 0, 2, 204>> >>

IsWrite(c) == c.op = "write"
\* The frames written so far, in the order of the writes.
Written == LET ws == SelectSeq(cmds, IsWrite) IN [k \in 1..Len(ws) |-> ws[k].frame]
\* The chunk bytes of the frames fs, concatenated in order.
RECURSIVE ChunkBytes(_)
ChunkBytes(fs) ==
  IF fs = <<>> THEN <<>>
  ELSE SubSeq(Head(fs), 4, Len(Head(fs))) \o ChunkBytes(Tail(fs))

\* The law of C7, single: an empty payload gives one frame.  For a payload of length L and an MTU m > 3, write_command writes
\* ceil((L+2)/(m-3)) frames, one at a time in ascending index; frame i is
\* [cmd if i = 0 else 0x03][i as 2 bytes, big endian][chunk i]; the chunks
\* concatenated in order are [L as 2 bytes, big endian][payload].
ChunkLaw(single) ==
  call.pc # "idle" =>
    LET L == Len(call.payload)
        n == mtu - 3
        total == (L + 2 + n - 1) \div n
        body == <<L \div 256, L % 256>> \o call.payload
        ws == Written
        got == ChunkBytes(ws)
    IN  /\ Len(ws) = call.i + 1
        /\ Len(ws) <= total
        /\ \A k \in 1..Len(ws) :
             /\ Len(ws[k]) > 3
             /\ ws[k][1] = (IF k = 1 THEN call.cmd ELSE 3)
             /\ ws[k][2] = (k - 1) \div 256
             /\ ws[k][3] = (k - 1) % 256
        /\ got = SubSeq(body, 1, Len(got))
        /\ call.pc = "done"
             => /\ call.result = Ok(<<>>)
                /\ Len(ws) = total
                /\ got = body
                /\ (L = 0 /\ single => ws = << <<call.cmd, 0, 0, 0, 0>> >>)
                /\ (L = 0 /\ ~single
                      => ws = << <<call.cmd, 0, 0, 0>>, <<3, 0, 1, 0>> >>)

\* C7 as stated: the empty payload gives the single frame whatever the MTU.
C7_ChunkRoundTrip == ChunkLaw(TRUE)

\* C7 as amended: the same, with the empty payload giving the single frame
\* [cmd,0,0,0,0] for m >= 5, and the two frames [cmd,0,0,0], [0x03,0,1,0]
\* for m = 4, where a chunk is one byte.
C7_ChunkRoundTripByMtu == ChunkLaw(mtu >= 5)

C7_Witness ==
  /\ call.pc = "done" /\ mtu = 5 /\ call.payload = <<170, 187, 187>>
  /\ Written = << <<8, 0, 0, 0, 3>>, <<3, 0, 1, 170, 187>>, <<3, 0, 2, 187>> >>

\* C10: from_pid answers for every 16-bit pid, and the answer is decided by
\* the high byte: high byte 0x40 gives NanoX, high byte 0x50 gives NanoSPlus,
\* any other pid gives Unknown carrying the pid as it was passed.
C10_FromPid ==
  /\ pid \in 0..65535
  /\ model = NoModel => ENABLED from_pid_call
  /\ model # NoModel
       => /\ (pid \div 256 = 64 => model = NanoX)
          /\ (pid \div 256 = 80 => model = NanoSPlus)
          /\ (pid \div 256 \notin {64, 80} => model = Unknown(pid))
          /\ (pid = 16385 => model = NanoX)
          /\ (pid = 20482 => model = NanoSPlus)
          /\ (pid = 4660 => model = Unknown(4660))

C10_Witness == pid = 20482 /\ model = NanoSPlus

\* C2: whenever connect(info) has been called, it got past the Match stage
\* (its outcome is not NoDevices) if and only if info equals the conn of some
\* entry the most recent list() returned; before any list(), and for an info
\* that only an earlier list() returned, it fails with NoDevices.
C2_MatchIffListed ==
  conn.pc \notin {"idle", "Scanning"} =>
    /\ (conn.result # Err("NoDevices")) <=> (conn.info \in ConnsOf(listed))
    /\ (conn.result = Err("NoDevices")) => (conn.pc = "done" /\ conn.per = "")

\* connect() refused an info that an earlier list() returned and the latest,
\* non-empty one did not.
C2_Witness ==
  /\ conn.result = Err("NoDevices")
  /\ conn.info \in everListed
  /\ listed # <<>>

HandshakeWaits == {"WaitConnect", "WaitServices", "WaitChars", "WaitSub"}

\* C11: a recv() of connect() that finds the channel closed and empty, at the
\* wait of whichever handshake stage, never makes connect() return a device:
\* connect() returns Unknown, at once or at the wait that follows.
C11_ClosedHandshake ==
  [][ (conn.pc \in HandshakeWaits /\ receiver = <<>> /\ closed /\ conn' # conn)
        => /\ conn'.result.kind # "Ok"
           /\ (conn'.pc = "done" => conn'.result = Err("Unknown"))
           /\ (conn.pc = "WaitSub" => conn'.pc = "done")
    ]_vars

\* The event e is one of the failures of the handshake stage `stage` for the
\* peripheral connect() is connecting to.
StageFailure(stage, e) ==
  /\ e.per = conn.per
  /\ \/ stage = "WaitConnect" /\ e.type = "PeripheralConnectFailed"
     \/ stage = "WaitServices" /\ e.type = "ServicesDiscovered"
          /\ (~e.ok \/ e.val = <<>>)
     \/ stage = "WaitChars" /\ e.type = "CharacteristicsDiscovered"
          /\ (~e.ok \/ ~Has(e.val, SpecOf(conn.model).notify_uuid)
                    \/ ~Has(e.val, SpecOf(conn.model).write_uuid))
     \/ stage = "WaitSub" /\ e.type = "SubscriptionChangeResult" /\ ~e.ok

\* C12: when connect() receives a failure of the stage it is in (connect
\* failed, service discovery error, empty service list, characteristic
\* discovery error, notify or write characteristic missing, failed
\* subscription result) it returns Unknown in that step and issues no command;
\* a connect() that returned issues no command afterwards.
C12_FailFast ==
  [][ /\ (conn.pc \in HandshakeWaits /\ receiver # <<>>
            /\ receiver' = Tail(receiver) /\ StageFailure(conn.pc, Head(receiver)))
         => /\ conn'.pc = "done" /\ conn'.result = Err("Unknown")
            /\ cmds' = cmds
      /\ (conn.pc = "done" /\ conn'.pc = "done" /\ calls' = calls) => cmds' = cmds
    ]_vars

\* connect() failed in the characteristics stage on an open channel:
\* discover_characteristics is the last command issued.
C12_Witness ==
  /\ conn.pc = "done" /\ conn.result = Err("Unknown") /\ ~closed
  /\ cmds # <<>> /\ cmds[Len(cmds)].op = "discover_characteristics"

\* The event e is the success of the handshake stage `stage` for the
\* peripheral connect() is connecting to.
StageSuccess(stage, e) ==
  /\ e.per = conn.per
  /\ e.ok
  /\ \/ stage = "WaitConnect" /\ e.type = "PeripheralConnected"
     \/ stage = "WaitServices" /\ e.type = "ServicesDiscovered" /\ e.val # <<>>
     \/ stage = "WaitChars" /\ e.type = "CharacteristicsDiscovered"
          /\ Has(e.val, SpecOf(conn.model).notify_uuid)
          /\ Has(e.val, SpecOf(conn.model).write_uuid)
     \/ stage = "WaitSub" /\ e.type = "SubscriptionChangeResult"

HandshakeOrder ==
  <<"connect", "discover_services", "discover_characteristics", "subscribe">>

\* The commands of the running or last connect(): those from its connect
\* command on.
RunOps ==
  LET at == {k \in 1..Len(cmds) : cmds[k].op = "connect"}
      from == CHOOSE k \in at : \A j \in at : j <= k
  IN  IF at = {} THEN <<>> ELSE [k \in 1..(Len(cmds) - from + 1) |-> cmds[from + k - 1].op]

\* C13: connect() issues connect, discover_services, discover_characteristics
\* and subscribe in that order; it issues the command of the next stage, and
\* in the last stage returns the device, only in a step that receives the
\* success event of the stage it is in for the target peripheral.
C13_HandshakeOrder ==
  [][ /\ (conn.pc \in HandshakeWaits
            => RunOps = SubSeq(HandshakeOrder, 1, Len(RunOps)))
      /\ (conn.pc \in HandshakeWaits
            /\ (cmds' # cmds \/ conn'.result.kind = "Ok"))
         => /\ receiver # <<>>
            /\ StageSuccess(conn.pc, Head(receiver))
            /\ receiver' = Tail(receiver)
      /\ (conn.result.kind # "Ok" /\ conn'.result.kind = "Ok" => conn.pc = "WaitSub")
    ]_vars

\* ------------------------------------- sessions and handshakes among others

\* Events of another peripheral, or of another characteristic of the session's
\* peripheral than the two the session uses.
ForeignPool ==
  { WriteResult(OtherPer, WriteChr, FALSE), SubResult(OtherPer, NotifyChr, FALSE),
    Value(OtherPer, NotifyChr, TRUE, Reply), Value(OtherPer, NotifyChr, FALSE, <<>>),
    Value(SelfPer, "other", TRUE, Reply) }

\* The platform layer enqueues an event of another device between the
\* responses of the scripted peripheral.
ForeignDeliver ==
  /\ peer = "scripted"
  /\ delivered < MaxEvents
  /\ Len(receiver) < ChanCap
  /\ \E e \in ForeignPool : receiver' = Append(receiver, e)
  /\ delivered' = delivered + 1
  /\ UNCHANGED <<call, mtu, closed, pending, peer, cmds, consumed, notified, now,
                 deadline, elapsedAt>>
  /\ UNCHANGED pureVars

\* A session as connect() returns it, or a transport as BleTransport::new()
\* returns it (peer = "handshake").
InitDevices ==
  /\ call = InitCall
  /\ mtu = DefaultMtu
  /\ receiver = <<>>
  /\ closed = FALSE
  /\ delivered = 0
  /\ pending = {}
  /\ peer \in {"scripted", "any", "handshake"}
  /\ cmds = <<>>
  /\ consumed = <<>>
  /\ notified = FALSE
  /\ now = 0
  /\ deadline = -1
  /\ elapsedAt = ""
  /\ pid = 0
  /\ model = NoModel
  /\ TransportIdle

\* The steps of the transport in a run of the transport, the steps of the
\* session in a run of a session.
NextDevices ==
  \/ peer = "handshake" /\ scan_internal
  \/ peer = "handshake" /\ list
  \/ peer = "handshake" /\ connect_call
  \/ peer = "handshake" /\ connect_wait_connected
  \/ peer = "handshake" /\ connect_wait_services
  \/ peer = "handshake" /\ connect_wait_characteristics
  \/ peer = "handshake" /\ connect_wait_subscription
  \/ peer = "handshake" /\ TransportDeliver
  \/ peer = "handshake" /\ TransportClose
  \/ peer # "handshake" /\ exchange
  \/ peer # "handshake" /\ write_command_recv
  \/ peer # "handshake" /\ read_data_sub_recv
  \/ peer # "handshake" /\ read_data_first_recv
  \/ peer # "handshake" /\ read_data_more_recv
  \/ peer # "handshake" /\ PlatformDeliver
  \/ peer # "handshake" /\ PeripheralRespond
  \/ peer # "handshake" /\ ChannelClose
  \/ peer # "handshake" /\ Tick
  \/ ForeignDeliver

SpecDevices == InitDevices /\ [][NextDevices]_vars

\* The characteristic the wait at pc compares an event's characteristic with.
WaitChr(pc) == IF pc = "WaitWrite" THEN WriteChr ELSE NotifyChr

SessionWaits == {"WaitWrite", "WaitSub", "WaitFirst", "WaitMore"}

\* C14: a recv() that takes an event of another peripheral, in whichever
\* handshake stage of connect() or wait of write_command/read_data, or in the
\* session an event of another characteristic than the one the wait is
\* about, changes nothing but the channel: the stage, the result, the commands
\* issued and the bytes gathered are as they were, so the operation goes on
\* from the state it would be in had the event not been in the channel.
C14_OthersIgnored ==
  [][ /\ (conn.pc \in HandshakeWaits /\ receiver # <<>>
            /\ receiver' = Tail(receiver) /\ Head(receiver).per # conn.per)
         => UNCHANGED <<conn, cmds, peripherals, listed, closed>>
      /\ (call.pc \in SessionWaits /\ receiver # <<>>
            /\ receiver' = Tail(receiver)
            /\ (Head(receiver).per # SelfPer \/ Head(receiver).chr # WaitChr(call.pc)))
         => UNCHANGED <<call, cmds, consumed, pending, closed, deadline>>
    ]_vars

\* exchange() returned the reply of the scripted peripheral although events of
\* other devices were enqueued, and it received every one of them.
C14_Witness ==
  /\ peer = "scripted" /\ call.result = Ok(<<204, 221>>)
  /\ delivered >= 2 /\ receiver = <<>>

\* ------------------------------------------- exchanges one after the other

Unsubscribes == Len(SelectSeq(cmds, LAMBDA c : c.op = "unsubscribe"))

\* exchange(command, timeout) is called again on a session whose last
\* exchange() returned Ok: the channel is as that call left it.
exchange_again ==
  /\ call.pc = "done"
  /\ call.entry = "exchange"
  /\ call.result.kind = "Ok"
  /\ Unsubscribes < MaxExchanges
  /\ \E c \in Commands, t \in Timeouts :
       LET fs == Frames(EXCHANGE_CMD, c, mtu)
       IN  /\ call' = [InitCall EXCEPT !.pc = "WaitWrite", !.entry = "exchange",
                                       !.cmd = EXCHANGE_CMD, !.payload = c,
                                       !.timeout = t]
           /\ Issue(Cmd("write", fs[1]), Len(fs) = 1)
  /\ consumed' = <<>>
  /\ deadline' = -1
  /\ UNCHANGED <<mtu, receiver, closed, delivered, peer, notified, now, elapsedAt>>
  /\ UNCHANGED pureVars

NextAgain == Next \/ exchange_again

SpecAgain == Init /\ [][NextAgain]_vars

\* C15: a wait completes only on the event that answers the command its own
\* stage issued.  For read_data against the scripted peripheral: when the wait
\* for the subscription result completes on an event, the result the
\* peripheral owes for this read_data's subscribe has reached the channel (it
\* is not still on its way while an older result is taken for it).
C15_NoStaleResult ==
  [][ (call.pc = "WaitSub" /\ call'.pc = "WaitFirst" /\ receiver # <<>>
         /\ peer = "scripted")
        => SubResult(SelfPer, NotifyChr, TRUE) \notin pending
    ]_vars

\* C16: write_command goes on from the wait for a write completion (writes
\* the next chunk, or returns Ok) only in a step that receives a successful
\* WriteCharacteristicResult of this peripheral and write characteristic; a
\* failed one makes it return Unknown in that step with nothing more written.
C16_ChunkAcknowledged ==
  [][ /\ (call.pc = "WaitWrite" /\ (cmds' # cmds \/ call'.wres = Ok(<<>>)))
         => /\ receiver # <<>>
            /\ Head(receiver) = WriteResult(SelfPer, WriteChr, TRUE)
            /\ receiver' = Tail(receiver)
      /\ (call.pc = "WaitWrite" /\ receiver # <<>> /\ receiver' = Tail(receiver)
            /\ Head(receiver) = WriteResult(SelfPer, WriteChr, FALSE))
         => /\ call'.pc = "done" /\ call'.wres = Err("Unknown")
            /\ cmds' = cmds
    ]_vars

SpecsFor(m) == {k \in 1..Len(BLE_SPECS) : BLE_SPECS[k].model = m}

\* C17: every model in the table list() keeps is NanoX or Stax and has exactly
\* one entry in BLE_SPECS; a connect() that got past the Match stage gets past
\* the Spec lookup too and issues the connect command; had the matched model
\* no spec, connect() would return Unknown with no command issued.
C17_SpecCoverage ==
  [][ /\ \A k \in 1..Len(peripherals) :
           /\ peripherals[k].info.model \in {NanoX, Stax}
           /\ Cardinality(SpecsFor(peripherals[k].info.model)) = 1
      /\ (NoCall /\ calls' = calls + 1 /\ conn'.pc # "Scanning"
            /\ conn'.result # Err("NoDevices"))
         => IF SpecsFor(conn'.model) # {}
            THEN /\ conn'.pc = "WaitConnect" /\ conn'.result = NoResult
                 /\ cmds' = Append(cmds, Cmd("connect", <<conn'.per>>))
            ELSE /\ conn'.pc = "done" /\ conn'.result = Err("Unknown")
                 /\ cmds' = cmds
      /\ (NoCall /\ calls' = calls + 1 /\ conn'.pc # "Scanning"
            /\ conn'.result # Err("NoDevices"))
         => SpecsFor(conn'.model) # {}
    ]_vars

\* connect() to a listed Stax is past the Spec lookup.
C17_Witness ==
  /\ conn.pc = "WaitConnect" /\ conn.model = Stax
  /\ cmds[Len(cmds)] = Cmd("connect", <<conn.per>>)

\* The candidate name of a discovery: the advertised local name, else the
\* identifier string of the peripheral.
CandidateName(e) == IF e.ok THEN e.val ELSE UuidString(e.per)

\* The event e is a discovery whose candidate name holds "Nano X" or "Stax".
IsLedger(e) ==
  /\ e.type = "PeripheralDiscovered"
  /\ (Contains(CandidateName(e), NANO_X) \/ Contains(CandidateName(e), STAX))

\* The pair the claim gives a discovery of a Ledger.
PairOf(e) ==
  [info |-> LedgerInfo(IF Contains(CandidateName(e), NANO_X) THEN NanoX ELSE Stax,
                       BleInfo(CandidateName(e), e.per)),
   per |-> e.per]

\* C18: the drain of list() never blocks (it can be taken whatever the
\* channel holds, closed or not), empties the channel, and keeps and returns,
\* in arrival order, exactly one pair per buffered PeripheralDiscovered event
\* whose candidate name holds "Nano X" (NanoX, also with "Stax" in it) or else
\* "Stax" (Stax); everything else is dropped and list() returns all the same.
C18_Classification ==
  [][ /\ (conn.pc = "Scanning" => ENABLED list)
      /\ (conn.pc = "Scanning" /\ conn'.pc # "Scanning")
         => LET found == SelectSeq(receiver, IsLedger)
            IN  /\ receiver' = <<>>
                /\ peripherals' = [k \in 1..Len(found) |-> PairOf(found[k])]
                /\ listed' = [k \in 1..Len(found) |-> PairOf(found[k]).info]
                /\ conn'.pc = "idle" /\ conn'.result = NoResult
    ]_vars

\* The one list() so far drained two discoveries: it dropped one and took the
\* one named "Stax Nano X" for a NanoX.
C18_Witness ==
  /\ listed = << LedgerInfo(NanoX, BleInfo(NameBoth, "p2")) >>
  /\ delivered = 2 /\ calls = 1 /\ conn.pc = "idle" /\ receiver = <<>>

\* C19: the table and what the last list() returned change only in the step
\* in which list() returns; no step of connect(), whatever its outcome,
\* touches them.  That step makes the table exactly the pairs of the
\* discoveries it drained, none of the entries it had before unless drained
\* anew, and returns the info halves of the new table in its order.
C19_TableOnlyInList ==
  [][ /\ (peripherals' # peripherals \/ listed' # listed)
         => (conn.pc = "Scanning" /\ conn'.pc = "idle")
      /\ (conn.pc = "Scanning" /\ conn'.pc # "Scanning")
         => LET found == SelectSeq(receiver, IsLedger)
            IN  /\ Len(peripherals') = Len(found)
                /\ \A k \in 1..Len(found) : peripherals'[k] = PairOf(found[k])
      /\ Len(listed') = Len(peripherals')
      /\ \A k \in 1..Len(listed') : listed'[k] = peripherals'[k].info
    ]_vars

\* After two list() calls that returned different devices a connect() to the
\* device of the second one failed in its handshake; the table holds that
\* device and nothing of the first list().
C19_Witness ==
  /\ calls = 3 /\ conn.pc = "done" /\ conn.result = Err("Unknown")
  /\ Len(peripherals) = 1 /\ everListed # {}
  /\ peripherals[1].info.conn \notin everListed
  /\ conn.info = peripherals[1].info.conn

\* C20: read_data never slices a frame of fewer than 5 bytes: the first frame
\* is sliced only after its checks passed, every continuation frame taken has
\* at least 5 bytes, and no call ends in a panic.
C20_NoOutOfRange ==
  /\ call.rres.kind # "Panic" /\ call.result.kind # "Panic"
  /\ (call.pc = "WaitMore" \/ call.rres.kind = "Ok") => Len(consumed[1]) >= MIN_FRAME_LEN
  /\ \A k \in 2..Len(consumed) : Len(consumed[k]) >= MIN_FRAME_LEN

\* C21: whenever read_data, and with it exchange(), returns Ok(buffer), the
\* buffer has exactly as many bytes as byte 4 of the first notification frame
\* declared, whatever the frames taken carried after offset 5.
C21_ResponseLength ==
  /\ call.rres.kind = "Ok"
       => Len(call.rres.val) = consumed[1][LEN_OFFSET + 1]
  /\ (call.entry = "exchange" /\ call.result.kind = "Ok" /\ call.pc = "done")
       => Len(call.result.val) = consumed[1][LEN_OFFSET + 1]

\* C22: for every payload and every MTU m above 3, every command
\* write_command issues is the write of a frame of at least 4 and at most m
\* bytes, every frame but the last has exactly m, bytes 1 and 2 of frame i
\* are i modulo 2^16, big endian, and the first two chunk bytes are the
\* payload length modulo 2^16, big endian.
C22_FrameBound ==
  call.pc # "idle" =>
    /\ mtu > BLE_HEADER_LEN
    /\ Len(cmds) = call.i + 1
    /\ \A k \in 1..Len(cmds) :
         /\ cmds[k].op = "write"
         /\ Len(cmds[k].frame) >= BLE_HEADER_LEN + 1
         /\ Len(cmds[k].frame) <= mtu
         /\ (k < Len(cmds) => Len(cmds[k].frame) = mtu)
         /\ cmds[k].frame[2] = ((k - 1) % U16) \div 256
         /\ cmds[k].frame[3] = ((k - 1) % U16) % 256
    /\ cmds[1].frame[BLE_HEADER_LEN + 1] = (Len(call.payload) % U16) \div 256
    /\ mtu > BLE_HEADER_LEN + 1
         => cmds[1].frame[BLE_HEADER_LEN + 2] = (Len(call.payload) % U16) % 256
    /\ (mtu = BLE_HEADER_LEN + 1 /\ Len(cmds) > 1)
         => cmds[2].frame[BLE_HEADER_LEN + 1] = (Len(call.payload) % U16) % 256
    /\ call.pc = "done" => call.result = Ok(<<>>)

\* write_command on a session of the largest MTU wrote the last frame of a
\* payload of 2^16 + 1 bytes: 261 frames, the first with the length prefix
\* 0, 1 and 255 bytes long as every frame but the last, the last of 22 bytes.
C22_Witness ==
  /\ call.pc = "WaitWrite" /\ mtu = MaxU8Mtu
  /\ Len(call.payload) = U16 + 1
  /\ Len(cmds) = 261 /\ call.i = 260
  /\ SubSeq(cmds[1].frame, 1, 6) = <<EXCHANGE_CMD, 0, 0, 0, 1, 1>>
  /\ Len(cmds[260].frame) = 255
  /\ Len(cmds[261].frame) = 22

============================================================================
